---- MODULE Spec2Model ----
(***************************************************************************)
(* Model of elmon's per-metric task scheduler                              *)
(* (src/src/elmon/scheduler/scheduler.go) together with the task function  *)
(* it drives (collector.ProcessMetric) and the two sql helpers the task    *)
(* function calls.                                                         *)
(*                                                                         *)
(* Spec and TaskSpec model one TaskScheduler; DeliveredSpec is TaskSpec    *)
(* with every max-retries the configuration lets through.  CollectorSpec   *)
(* models the                                                              *)
(* Collector (src/src/elmon/collector/collector.go) with its list of       *)
(* schedulers, of which one at a time is in view of the scheduler's        *)
(* variables; PartitionSpec models the two partition functions of          *)
(* src/src/elmon/sql/script/init.sql; ConfigSpec models the assembly of a  *)
(* metric task from the configuration in src/src/elmon/main.go.            *)
(*                                                                         *)
(* The API methods of a TaskScheduler hold the mutex for                   *)
(* their whole body, so each is one atomic action.  The dispatch loop      *)
(* (runLoop) and every cycle (executeTaskWithRetries) are goroutines, and  *)
(* their code is cut into actions at the points where another goroutine    *)
(* can make a difference:                                                  *)
(*   - runLoop evaluates stopChan and ticker.C without the mutex when it   *)
(*     enters its select (LoopSelect), then blocks on the two channels it  *)
(*     read (LoopStopped, LoopTick);                                       *)
(*   - receiving a tick, the first locked section and the allocation of    *)
(*     the cycle id touch nothing another goroutine reads in between, and  *)
(*     are one action (LoopTick); the second locked section and the go     *)
(*     statement are the next (LoopStore);                                 *)
(*   - a cycle is cut at the call of the task function (CycleCheck), at    *)
(*     its return (TaskReturn) and at the retry wait (CycleRetry,          *)
(*     CycleAbortWait); the deferred function runs in the action that      *)
(*     returns from the cycle.                                             *)
(* The unsynchronised reads of stopChan and ticker in runLoop race with    *)
(* the writes in Start and Stop; a read returns the value before or after  *)
(* such a write, which is what the interleaving of LoopSelect with Start   *)
(* and Stop produces.                                                      *)
(***************************************************************************)
EXTENDS Integers, Sequences, FiniteSets, TLC

\* ------------------------------------------------------------------ bounds
MaxRetriesBound == 1     \* MaxRetries is drawn from 0..MaxRetriesBound
MaxCycles       == 2     \* cycles dispatched in one behaviour
MaxStarts       == 2     \* successful Start() calls, and effective Stop() calls, in one behaviour
MaxSchedulers   == 2     \* schedulers in the Collector's list
MaxListCycles   == 1     \* cycles one scheduler of the Collector's list dispatches
MaxMonthsForward   == 2  \* month_forward is drawn from 0..MaxMonthsForward
MaxRetentionMonths == 2  \* retention_months is drawn from 0..MaxRetentionMonths
MaxSqlCalls        == 2  \* calls of the partition functions in one behaviour
MaxSetting         == 2  \* a configured value is drawn from 0..MaxSetting

\* ------------------------------------------------------------------ state
VARIABLES
    \* configuration, fixed by NewTaskScheduler
    Interval,            \* time.Duration, only its sign matters
    MaxRetries,
    Task,                \* "nil" or "ProcessMetric"
    Payload,             \* the *MetricTask handed to the task function
    \* TaskScheduler fields
    taskIDCounter,
    currentTaskID,
    ticker,              \* 0 is nil, otherwise an index into tickers
    stopChan,            \* identity of the channel the field points to
    isRunning,
    isDisabled,
    currentTaskCancel,   \* 0 is nil, otherwise the cycle whose cancel func it is
    \* runtime objects
    closed,              \* the channels close() has been called on
    tickers,             \* every time.Ticker created so far
    loops,               \* every runLoop goroutine started so far
    cycles,              \* every cycle created so far, indexed by cycle id
    \* observations
    startResult,         \* what the last Start() returned
    panicked,            \* a close of a closed channel or a nil ticker dereference has happened
    lastRecorded,        \* id of the cycle most recently recorded as current
    \* the two databases the task function talks to
    queryResult,         \* what the monitored server answers to a query
    insertResult,        \* what the metrics database answers to an insert
    \* the Collector and the schedulers of its list
    others,              \* the schedulers of the list other than the one in view, by index
    cur,                 \* index of the scheduler in view: the one the TaskScheduler variables hold
    collector,           \* where the owner is in Collector.Start() or Collector.Stop()
    \* the metric_value table of the metrics database
    partitions,          \* months that have a partition
    today,               \* month of current_date
    sqlCall,             \* the last call of a partition function, with the error it raised
    \* the assembly of metric tasks in main
    settings,            \* the loaded configuration of one server/metric pair
    metricTask           \* the MetricTask resolved from it

vars == <<Interval, MaxRetries, Task, Payload, taskIDCounter, currentTaskID,
          ticker, stopChan, isRunning, isDisabled, currentTaskCancel, closed,
          tickers, loops, cycles, startResult, panicked, lastRecorded,
          queryResult, insertResult, others, cur, collector,
          partitions, today, sqlCall, settings, metricTask>>

databases == <<queryResult, insertResult>>

\* one TaskScheduler with its runtime objects
scheduler == <<Interval, MaxRetries, Task, Payload, taskIDCounter, currentTaskID,
               ticker, stopChan, isRunning, isDisabled, currentTaskCancel, closed,
               tickers, loops, cycles, startResult, panicked, lastRecorded>>

\* what no method or goroutine of the scheduler in view touches: the caller's
\* own position, and everything beyond the scheduler and its caller
beyond == <<others, cur, partitions, today, sqlCall, settings, metricTask>>

elsewhere == <<collector, beyond>>

config == <<Interval, MaxRetries, Task, Payload>>

\* ------------------------------------------------------------- task inputs
\* The MetricTask payloads a scheduler is built with.
Payloads ==
    { [CollectionType |-> ct[1], GoFunction |-> ct[2], ServerID |-> 7, MetricID |-> 3] :
        ct \in { <<"sql", "">>, <<"go_func", "collectPostgresUptime">>,
                 <<"go_func", "noSuchFunction">>, <<"shell", "">> } }

\* What the monitored server answers to one query.
QueryResults ==
    { "exec_error", "timeout", "two_columns", "non_json", "zero_rows",
      "two_rows", "null", "value" }

\* What the metrics database answers to one insert.
InsertResults == { "ok", "error" }

ZeroUptimeValue == "{\"value\": 0}"
ScriptValue     == "{\"value\": 42}"

\* ExecuteMetricValueGetScript: <<value, err>>; value "nil" is a nil RawMessage
ExecuteMetricValueGetScript(q) ==
    CASE q = "exec_error"  -> <<"nil", "failed to execute script">>
      [] q = "timeout"     -> <<"nil", "query timed out">>
      [] q = "two_columns" -> <<"nil", "expected 1 column">>
      [] q = "non_json"    -> <<"nil", "expected column type 'jsonb' or 'json'">>
      [] q = "zero_rows"   -> <<"nil", "">>
      [] q = "two_rows"    -> <<"nil", "expected exactly 1 row">>
      [] q = "null"        -> <<"nil", "">>
      [] OTHER             -> <<ScriptValue, "">>

\* InsertMetricValue with the two ids in each other's column
InsertMetricValueSwapsIds(metricId, serverId, value, ins) ==
    IF ins = "ok"
    THEN << <<[server_id |-> metricId, metric_id |-> serverId, metric_value |-> value]>>, "", 1 >>
    ELSE << <<>>, "failed to insert metric", 1 >>

\* InsertMetricValue: <<rows inserted, err, calls of the insert>>
InsertMetricValue(metricId, serverId, value, ins) ==
    IF ins = "ok"
    THEN << <<[server_id |-> serverId, metric_id |-> metricId, metric_value |-> value]>>, "", 1 >>
    ELSE << <<>>, "failed to insert metric", 1 >>

\* executeSQLMetric that goes on to the insert after a failed query
executeSQLMetricInsertsAfterError(task, q, ins) ==
    LET r == ExecuteMetricValueGetScript(q) IN
    IF r[1] # "nil" \/ r[2] # ""
    THEN LET i == InsertMetricValue(task.MetricID, task.ServerID, r[1], ins) IN
         << i[1], IF r[2] # "" THEN r[2] ELSE i[2], i[3] >>
    ELSE << <<>>, "", 0 >>

\* executeSQLMetric without the check for a nil value
executeSQLMetricNoNilCheck(task, q, ins) ==
    LET r == ExecuteMetricValueGetScript(q) IN
    IF r[2] # "" THEN << <<>>, r[2], 0 >>
    ELSE InsertMetricValue(task.MetricID, task.ServerID, r[1], ins)

\* executeSQLMetric that drops the error of the insert
executeSQLMetricIgnoresInsertError(task, q, ins) ==
    LET r == ExecuteMetricValueGetScript(q) IN
    IF r[2] # "" THEN << <<>>, r[2], 0 >>
    ELSE IF r[1] # "nil"
    THEN LET i == InsertMetricValue(task.MetricID, task.ServerID, r[1], ins) IN
         << i[1], "", i[3] >>
    ELSE << <<>>, "", 0 >>

\* executeSQLMetric: <<rows inserted, err, calls of the insert>>
executeSQLMetric(task, q, ins) ==
    LET r == ExecuteMetricValueGetScript(q) IN
    IF r[2] # "" THEN << <<>>, r[2], 0 >>
    ELSE IF r[1] # "nil" THEN InsertMetricValue(task.MetricID, task.ServerID, r[1], ins)
    ELSE << <<>>, "", 0 >>

\* collectPostgresUptime that returns the error of the probe query
collectPostgresUptimePropagates(task, q, ins) ==
    LET r == ExecuteMetricValueGetScript(q) IN
    IF r[2] # "" THEN << <<>>, r[2], 0 >>
    ELSE IF r[1] # "nil" THEN InsertMetricValue(task.MetricID, task.ServerID, r[1], ins)
    ELSE << <<>>, "", 0 >>

\* collectPostgresUptime that returns the error of the probe query after it
\* has inserted the zero value
collectPostgresUptimeInsertsThenFails(task, q, ins) ==
    LET r == ExecuteMetricValueGetScript(q) IN
    IF r[2] # ""
    THEN LET i == InsertMetricValue(task.MetricID, task.ServerID, ZeroUptimeValue, ins) IN
         << i[1], r[2], i[3] >>
    ELSE IF r[1] # "nil" THEN InsertMetricValue(task.MetricID, task.ServerID, r[1], ins)
    ELSE << <<>>, "", 0 >>

\* collectPostgresUptime: <<rows inserted, err, calls of the insert>>
collectPostgresUptime(task, q, ins) ==
    LET r == ExecuteMetricValueGetScript(q) IN
    IF r[2] # "" THEN InsertMetricValue(task.MetricID, task.ServerID, ZeroUptimeValue, ins)
    ELSE IF r[1] # "nil" THEN InsertMetricValue(task.MetricID, task.ServerID, r[1], ins)
    ELSE << <<>>, "", 0 >>

\* executeGoFuncMetric: <<rows inserted, err, calls of the insert>>
executeGoFuncMetric(task, q, ins) ==
    IF task.GoFunction = "collectPostgresUptime"
    THEN collectPostgresUptime(task, q, ins)
    ELSE << <<>>, "go function not implemented yet", 0 >>

\* ProcessMetric: <<rows inserted, err, calls of the insert>>
ProcessMetric(task, q, ins) ==
    CASE task.CollectionType = "sql"     -> executeSQLMetric(task, q, ins)
      [] task.CollectionType = "go_func" -> executeGoFuncMetric(task, q, ins)
      [] OTHER -> << <<>>, "collection type not implemented yet", 0 >>

\* --------------------------------------------------- metric_value partitions
\* Dates are months here (every date the two functions handle is the first
\* day of a month): year * 12 + month - 1.
\* to_char(d, 'YYYY_MM'): the year and month fields of the partition name
ToChar(d) == <<d \div 12, (d % 12) + 1>>

\* to_date(name, 'YYYY_MM'): the date of the year and month fields
ToDate(ym) == ym[1] * 12 + ym[2] - 1

\* 'metric_value_' || to_char(partition_date, 'YYYY_MM')
PartitionName(d) == [prefix |-> "metric_value_", ym |-> ToChar(d)]

\* A partition of metric_value: its table name and its range [from, to)
Partition(name, from, to) == [name |-> name, from |-> from, to |-> to]

\* The partition of month d as a correct create statement leaves it
MonthPartition(d) == Partition(PartitionName(d), d, d + 1)

\* No partition function has been called
NoCall == [seq |-> 0, fn |-> "none", arg |-> 0, date |-> 0, error |-> "", dropped |-> <<>>]

\* The type specifiers PostgreSQL's format() accepts; they are case-sensitive
FormatSpecifiers == {"s", "I", "L"}

\* format(): the error it raises on a format string with these type
\* specifiers, "" if it returns the formatted text
Format(specifiers) ==
    IF \A k \in DOMAIN specifiers : specifiers[k] \in FormatSpecifiers
    THEN ""
    ELSE "unrecognized format() type specifier"

\* 'create table %i partition of metric_value for values from (%l) to (%l)'
CreateStatement == <<"i", "l", "l">>

\* 'DROP TABLE IF EXISTS %I'
DropStatement == <<"I">>

\* The loop of create_metric_partition from turn i on, over the partitions
\* parts: <<partitions, error>>
RECURSIVE CreateLoop(_, _, _, _)
CreateLoop(i, month_forward, current_date, parts) ==
    IF i > month_forward THEN <<parts, "">>
    ELSE LET partition_date == current_date + i
             partition_name == PartitionName(partition_date)
             start_date     == partition_date
             end_date       == partition_date + 1
         IN  IF \E p \in parts : p.name = partition_name
             THEN CreateLoop(i + 1, month_forward, current_date, parts)
             ELSE IF Format(CreateStatement) # ""
             THEN <<parts, Format(CreateStatement)>>
             ELSE CreateLoop(i + 1, month_forward, current_date,
                             parts \cup {Partition(partition_name, start_date, end_date)})

\* create_metric_partition(month_forward): <<partitions, error>>; an error
\* aborts the statement that called the function, and what the function did
\* before it is rolled back
create_metric_partition(month_forward, current_date, parts) ==
    LET r == CreateLoop(0, month_forward, current_date, parts)
    IN  IF r[2] # "" THEN <<parts, r[2]>> ELSE r

\* The columns of pg_inherits, pg_class and pg_namespace the query of
\* drop_old_metric_partitions can name
CatalogColumns ==
    { "inhrelid", "inhparent", "inhseqno", "inhdetachpending",
      "oid", "relname", "relnamespace", "relkind", "relispartition",
      "nspname", "nspowner", "nspacl" }

\* select relid::regclass::text
SelectedColumn == "relid"

\* S in ascending order of the month in the name
RECURSIVE Ascending(_)
Ascending(S) ==
    IF S = {} THEN <<>>
    ELSE LET first == CHOOSE p \in S : \A q \in S : ToDate(p.name.ym) <= ToDate(q.name.ym)
         IN  <<first>> \o Ascending(S \ {first})

\* drop_old_metric_partitions(retention_months):
\* <<partitions, error, partitions dropped, in the order of the drops>>
drop_old_metric_partitions(retention_months, current_date, parts) ==
    LET retention_cutoff_date == current_date - retention_months
        selected == { p \in parts : ToDate(p.name.ym) < retention_cutoff_date }
    IN  IF SelectedColumn \notin CatalogColumns
        THEN <<parts, "column does not exist", <<>> >>
        ELSE IF selected # {} /\ Format(DropStatement) # ""
        THEN <<parts, Format(DropStatement), <<>> >>
        ELSE <<parts \ selected, "", Ascending(selected)>>

\* The months current_date is drawn from: the last two of a year
Todays == { ToDate(<<2024, 11>>), ToDate(<<2024, 12>>) }

\* The metrics database with some monthly partitions of metric_value, from
\* before the retention cutoff to the last month create_metric_partition
\* looks at
InitPartitions ==
    /\ today \in Todays
    /\ partitions \in SUBSET { MonthPartition(d) :
                                 d \in (today - MaxRetentionMonths - 1)..(today + MaxMonthsForward) }
    /\ sqlCall = NoCall
    /\ Interval = 1
    /\ MaxRetries = 0
    /\ Task = "ProcessMetric"
    /\ Payload = [CollectionType |-> "sql", GoFunction |-> "", ServerID |-> 7, MetricID |-> 3]
    /\ taskIDCounter = 0
    /\ currentTaskID = 0
    /\ ticker = 0
    /\ stopChan = 1
    /\ isRunning = FALSE
    /\ isDisabled = FALSE
    /\ currentTaskCancel = 0
    /\ closed = {}
    /\ tickers = <<>>
    /\ loops = <<>>
    /\ cycles = <<>>
    /\ startResult = "none"
    /\ panicked = FALSE
    /\ lastRecorded = 0
    /\ queryResult = "any"
    /\ insertResult = "any"
    /\ others = <<>>
    /\ cur = 1
    /\ collector = [pc |-> "idle", i |-> 0, op |-> "none", returned |-> "none"]
    /\ settings = "none"
    /\ metricTask = "none"

\* select create_metric_partition(month_forward)
CreateMetricPartition(month_forward) ==
    /\ sqlCall.seq < MaxSqlCalls
    /\ LET r == create_metric_partition(month_forward, today, partitions)
       IN  /\ partitions' = r[1]
           /\ sqlCall' = [seq |-> sqlCall.seq + 1, fn |-> "create_metric_partition",
                          arg |-> month_forward, date |-> today, error |-> r[2],
                          dropped |-> <<>>]
    /\ UNCHANGED <<scheduler, databases, collector, others, cur, today, settings, metricTask>>

\* select drop_old_metric_partitions(retention_months)
DropOldMetricPartitions(retention_months) ==
    /\ sqlCall.seq < MaxSqlCalls
    /\ LET r == drop_old_metric_partitions(retention_months, today, partitions)
       IN  /\ partitions' = r[1]
           /\ sqlCall' = [seq |-> sqlCall.seq + 1, fn |-> "drop_old_metric_partitions",
                          arg |-> retention_months, date |-> today, error |-> r[2],
                          dropped |-> r[3]]
    /\ UNCHANGED <<scheduler, databases, collector, others, cur, today, settings, metricTask>>

\* current_date moves into the next month
NextMonth ==
    /\ today + 1 \in Todays
    /\ today' = today + 1
    /\ UNCHANGED <<scheduler, databases, collector, others, cur, partitions, sqlCall,
                   settings, metricTask>>

NextPartitions ==
    \/ \E month_forward \in 0..MaxMonthsForward : CreateMetricPartition(month_forward)
    \/ \E retention_months \in 0..MaxRetentionMonths : DropOldMetricPartitions(retention_months)
    \/ NextMonth

PartitionSpec == InitPartitions /\ [][NextPartitions]_vars

\* ------------------------------------------------- assembly of metric tasks
\* The four parameters of a metric a server mapping can override
Fields == {"interval", "max-retries", "retry-delay", "query-timeout"}

\* setDefaults: the global default of each parameter, durations in seconds
setDefaults ==
    [f \in Fields |-> CASE f = "interval"      -> 30
                        [] f = "query-timeout" -> 10
                        [] f = "max-retries"   -> 0
                        [] f = "retry-delay"   -> 5]

\* A key of the configuration file: absent, or present with a value
Settings ==
    {[set |-> FALSE, value |-> 0]} \cup {[set |-> TRUE, value |-> v] : v \in 0..MaxSetting}

\* What the struct field holds after the configuration is unmarshalled: the
\* value of a key that is present, the zero value for a key that is absent
Decode(s) == IF s.set THEN s.value ELSE 0

\* The global default of a parameter: the key of the file if present, the
\* value setDefaults registered if not
GlobalDefault(f, g) == IF g.set THEN g.value ELSE setDefaults[f]

\* main: the value of one parameter in the MetricTask, from the struct fields
\* of the server's override and of the base metric
Resolve(override, base) ==
    IF Decode(override) = 0 THEN Decode(base) ELSE Decode(override)

\* One parameter of one server/metric pair as the configuration file gives it
InitConfig ==
    /\ settings \in [field : Fields, override : Settings, base : Settings, global : Settings]
    /\ metricTask = [assembled |-> FALSE, value |-> 0]
    /\ partitions = {}
    /\ today = 0
    /\ sqlCall = NoCall
    /\ Interval = 1
    /\ MaxRetries = 0
    /\ Task = "ProcessMetric"
    /\ Payload = [CollectionType |-> "sql", GoFunction |-> "", ServerID |-> 7, MetricID |-> 3]
    /\ taskIDCounter = 0
    /\ currentTaskID = 0
    /\ ticker = 0
    /\ stopChan = 1
    /\ isRunning = FALSE
    /\ isDisabled = FALSE
    /\ currentTaskCancel = 0
    /\ closed = {}
    /\ tickers = <<>>
    /\ loops = <<>>
    /\ cycles = <<>>
    /\ startResult = "none"
    /\ panicked = FALSE
    /\ lastRecorded = 0
    /\ queryResult = "any"
    /\ insertResult = "any"
    /\ others = <<>>
    /\ cur = 1
    /\ collector = [pc |-> "idle", i |-> 0, op |-> "none", returned |-> "none"]

\* main assembles the MetricTask of the pair
AssembleTask ==
    /\ ~metricTask.assembled
    /\ metricTask' = [assembled |-> TRUE, value |-> Resolve(settings.override, settings.base)]
    /\ UNCHANGED <<scheduler, databases, collector, others, cur, partitions, today,
                   sqlCall, settings>>

NextConfig == AssembleTask

ConfigSpec == InitConfig /\ [][NextConfig]_vars

\* ------------------------------------------------------------------ Init
\* a scheduler that is in no Collector's list, no partition function called,
\* no metric task assembled
Standalone ==
    /\ others = <<>>
    /\ cur = 1
    /\ collector = [pc |-> "idle", i |-> 0, op |-> "none", returned |-> "none"]
    /\ partitions = {}
    /\ today = 0
    /\ sqlCall = NoCall
    /\ settings = "none"
    /\ metricTask = "none"

\* NewTaskScheduler
Init ==
    /\ Interval \in {0, 1}
    /\ MaxRetries \in 0..MaxRetriesBound
    /\ Task \in {"nil", "ProcessMetric"}
    /\ Payload \in Payloads
    /\ taskIDCounter = 0
    /\ currentTaskID = 0
    /\ ticker = 0
    /\ stopChan = 1
    /\ isRunning = FALSE
    /\ isDisabled = FALSE
    /\ currentTaskCancel = 0
    /\ closed = {}
    /\ tickers = <<>>
    /\ loops = <<>>
    /\ cycles = <<>>
    /\ startResult = "none"
    /\ panicked = FALSE
    /\ lastRecorded = 0
    /\ queryResult = "any"
    /\ insertResult = "any"
    /\ Standalone

\* NewTaskScheduler with a task function, an interval > 0 and two databases
\* that give the same answer to every query and to every insert
InitTask ==
    /\ Interval = 1
    /\ MaxRetries \in 0..MaxRetriesBound
    /\ Task = "ProcessMetric"
    /\ Payload \in Payloads
    /\ taskIDCounter = 0
    /\ currentTaskID = 0
    /\ ticker = 0
    /\ stopChan = 1
    /\ isRunning = FALSE
    /\ isDisabled = FALSE
    /\ currentTaskCancel = 0
    /\ closed = {}
    /\ tickers = <<>>
    /\ loops = <<>>
    /\ cycles = <<>>
    /\ startResult = "none"
    /\ panicked = FALSE
    /\ lastRecorded = 0
    /\ queryResult \in QueryResults
    /\ insertResult \in InsertResults
    /\ Standalone

\* Metric.Validate checks the value type and the collection type of a metric
\* and nothing of its max-retries: a negative value passes, and main.go hands
\* it to NewTaskScheduler as it is.  The values of max-retries it lets through:
ValidatedMaxRetries == -1..MaxRetriesBound

\* NewTaskScheduler as main.go and the collector call it: a task function, an
\* interval > 0, and any max-retries the configuration has let through
InitDelivered ==
    /\ Interval = 1
    /\ MaxRetries \in ValidatedMaxRetries
    /\ Task = "ProcessMetric"
    /\ Payload \in Payloads
    /\ taskIDCounter = 0
    /\ currentTaskID = 0
    /\ ticker = 0
    /\ stopChan = 1
    /\ isRunning = FALSE
    /\ isDisabled = FALSE
    /\ currentTaskCancel = 0
    /\ closed = {}
    /\ tickers = <<>>
    /\ loops = <<>>
    /\ cycles = <<>>
    /\ startResult = "none"
    /\ panicked = FALSE
    /\ lastRecorded = 0
    /\ queryResult \in QueryResults
    /\ insertResult \in InsertResults
    /\ Standalone

\* ------------------------------------------------------------ API methods
\* Start without the interval check
StartNoIntervalCheck ==
    IF isRunning THEN
        /\ startResult' = "already_running"
        /\ UNCHANGED <<config, taskIDCounter, currentTaskID, ticker, stopChan,
                       isRunning, isDisabled, currentTaskCancel, closed, tickers,
                       loops, cycles, panicked, lastRecorded,
                   databases, elsewhere>>
    ELSE IF Task = "nil" THEN
        /\ startResult' = "nil_task"
        /\ UNCHANGED <<config, taskIDCounter, currentTaskID, ticker, stopChan,
                       isRunning, isDisabled, currentTaskCancel, closed, tickers,
                       loops, cycles, panicked, lastRecorded,
                   databases, elsewhere>>
    ELSE
        /\ Len(tickers) < MaxStarts
        /\ isRunning' = TRUE
        /\ tickers' = Append(tickers, [stopped |-> FALSE, C |-> 0])
        /\ ticker' = Len(tickers) + 1
        /\ loops' = Append(loops, [pc |-> "select", stopChan |-> 0, ticker |-> 0, newTaskID |-> 0])
        /\ startResult' = "ok"
        /\ UNCHANGED <<config, taskIDCounter, currentTaskID, stopChan,
                       isDisabled, currentTaskCancel, closed,
                       cycles, panicked, lastRecorded,
                   databases, elsewhere>>

\* Start that restarts the cycle ids at every successful start
StartResetsCounter ==
    IF isRunning THEN
        /\ startResult' = "already_running"
        /\ UNCHANGED <<config, taskIDCounter, currentTaskID, ticker, stopChan,
                       isRunning, isDisabled, currentTaskCancel, closed, tickers,
                       loops, cycles, panicked, lastRecorded,
                   databases, elsewhere>>
    ELSE IF Task = "nil" THEN
        /\ startResult' = "nil_task"
        /\ UNCHANGED <<config, taskIDCounter, currentTaskID, ticker, stopChan,
                       isRunning, isDisabled, currentTaskCancel, closed, tickers,
                       loops, cycles, panicked, lastRecorded,
                   databases, elsewhere>>
    ELSE IF Interval <= 0 THEN
        /\ isRunning' = TRUE
        /\ startResult' = "invalid_interval"
        /\ UNCHANGED <<config, taskIDCounter, currentTaskID, ticker, stopChan,
                       isDisabled, currentTaskCancel, closed, tickers,
                       loops, cycles, panicked, lastRecorded,
                   databases, elsewhere>>
    ELSE
        /\ Len(tickers) < MaxStarts
        /\ isRunning' = TRUE
        /\ tickers' = Append(tickers, [stopped |-> FALSE, C |-> 0])
        /\ ticker' = Len(tickers) + 1
        /\ loops' = Append(loops, [pc |-> "select", stopChan |-> 0, ticker |-> 0, newTaskID |-> 0])
        /\ startResult' = "ok"
        /\ taskIDCounter' = 0
        /\ UNCHANGED <<config, currentTaskID, stopChan,
                       isDisabled, currentTaskCancel, closed,
                       cycles, panicked, lastRecorded,
                   databases, elsewhere>>

\* Start: every return path, the mutex held throughout
StartCall ==
    IF isRunning THEN
        /\ startResult' = "already_running"
        /\ UNCHANGED <<config, taskIDCounter, currentTaskID, ticker, stopChan,
                       isRunning, isDisabled, currentTaskCancel, closed, tickers,
                       loops, cycles, panicked, lastRecorded,
                   databases, beyond>>
    ELSE IF Task = "nil" THEN
        /\ startResult' = "nil_task"
        /\ UNCHANGED <<config, taskIDCounter, currentTaskID, ticker, stopChan,
                       isRunning, isDisabled, currentTaskCancel, closed, tickers,
                       loops, cycles, panicked, lastRecorded,
                   databases, beyond>>
    ELSE IF Interval <= 0 THEN
        /\ isRunning' = TRUE
        /\ startResult' = "invalid_interval"
        /\ UNCHANGED <<config, taskIDCounter, currentTaskID, ticker, stopChan,
                       isDisabled, currentTaskCancel, closed, tickers,
                       loops, cycles, panicked, lastRecorded,
                   databases, beyond>>
    ELSE
        /\ Len(tickers) < MaxStarts
        /\ isRunning' = TRUE
        /\ tickers' = Append(tickers, [stopped |-> FALSE, C |-> 0])
        /\ ticker' = Len(tickers) + 1
        /\ loops' = Append(loops, [pc |-> "select", stopChan |-> 0, ticker |-> 0, newTaskID |-> 0])
        /\ startResult' = "ok"
        /\ UNCHANGED <<config, taskIDCounter, currentTaskID, stopChan,
                       isDisabled, currentTaskCancel, closed,
                       cycles, panicked, lastRecorded,
                   databases, beyond>>

\* Start() called by a goroutine other than the Collector's owner
Start == StartCall /\ UNCHANGED collector

\* context.CancelFunc of cycle c, called by Stop or AbortCurrentExecution: the
\* first call of a cancel func sets ctx.Err(), later calls do nothing
Cancel(cs, c) ==
    IF cs[c].ctxErr THEN cs
    ELSE [cs EXCEPT ![c].ctxErr = TRUE, ![c].aborted = TRUE]

\* Stop without the isRunning check
StopUnguarded ==
    /\ stopChan <= MaxStarts
    /\ \E drain \in BOOLEAN :
          tickers' = IF ticker # 0
                     THEN [tickers EXCEPT ![ticker].stopped = TRUE,
                                          ![ticker].C = IF drain THEN 0 ELSE @]
                     ELSE tickers
    /\ cycles' = IF currentTaskCancel # 0
                  THEN Cancel(cycles, currentTaskCancel)
                  ELSE cycles
    /\ currentTaskCancel' = 0
    /\ panicked' = (panicked \/ stopChan \in closed)
    /\ closed' = closed \cup {stopChan}
    /\ isRunning' = FALSE
    /\ stopChan' = stopChan + 1
    /\ UNCHANGED <<config, taskIDCounter, currentTaskID, ticker, isDisabled,
                   loops, startResult, lastRecorded,
                   databases, elsewhere>>

\* Stop that closes the stop channel and keeps it in the field
StopKeepsChannel ==
    IF ~isRunning THEN UNCHANGED vars
    ELSE
        /\ \E drain \in BOOLEAN :
              tickers' = IF ticker # 0
                         THEN [tickers EXCEPT ![ticker].stopped = TRUE,
                                              ![ticker].C = IF drain THEN 0 ELSE @]
                         ELSE tickers
        /\ cycles' = IF currentTaskCancel # 0
                      THEN Cancel(cycles, currentTaskCancel)
                      ELSE cycles
        /\ currentTaskCancel' = 0
        /\ panicked' = (panicked \/ stopChan \in closed)
        /\ closed' = closed \cup {stopChan}
        /\ isRunning' = FALSE
        /\ UNCHANGED <<config, taskIDCounter, currentTaskID, ticker, isDisabled,
                       loops, startResult, lastRecorded, stopChan,
                       databases, elsewhere>>

\* Stop that calls ticker.Stop() without the nil check
StopNoNilCheck ==
    IF ~isRunning THEN UNCHANGED vars
    ELSE
        /\ stopChan <= MaxStarts
        /\ \E drain \in BOOLEAN :
              tickers' = IF ticker # 0
                         THEN [tickers EXCEPT ![ticker].stopped = TRUE,
                                              ![ticker].C = IF drain THEN 0 ELSE @]
                         ELSE tickers
        /\ cycles' = IF currentTaskCancel # 0
                      THEN Cancel(cycles, currentTaskCancel)
                      ELSE cycles
        /\ currentTaskCancel' = 0
        /\ panicked' = (panicked \/ ticker = 0 \/ stopChan \in closed)
        /\ closed' = closed \cup {stopChan}
        /\ isRunning' = FALSE
        /\ stopChan' = stopChan + 1
        /\ UNCHANGED <<config, taskIDCounter, currentTaskID, ticker, isDisabled,
                       loops, startResult, lastRecorded,
                   databases, elsewhere>>

\* Stop, the mutex held throughout.  ticker.Stop() is called only on a
\* ticker that is not nil; close(stopChan) panics on a closed channel.
\* drain says whether the runtime discards a tick still buffered in the
\* stopped ticker's channel (Go 1.23 and later) or leaves it (earlier).
StopCall ==
    IF ~isRunning THEN UNCHANGED <<scheduler, databases, beyond>>
    ELSE
        /\ stopChan <= MaxStarts
        /\ \E drain \in BOOLEAN :
              tickers' = IF ticker # 0
                         THEN [tickers EXCEPT ![ticker].stopped = TRUE,
                                              ![ticker].C = IF drain THEN 0 ELSE @]
                         ELSE tickers
        /\ cycles' = IF currentTaskCancel # 0
                      THEN Cancel(cycles, currentTaskCancel)
                      ELSE cycles
        /\ currentTaskCancel' = 0
        /\ panicked' = (panicked \/ stopChan \in closed)
        /\ closed' = closed \cup {stopChan}
        /\ isRunning' = FALSE
        /\ stopChan' = stopChan + 1
        /\ UNCHANGED <<config, taskIDCounter, currentTaskID, ticker, isDisabled,
                       loops, startResult, lastRecorded,
                   databases, beyond>>

\* Stop() called by a goroutine other than the Collector's owner
Stop == StopCall /\ UNCHANGED collector

\* DisableNextExecution on a skip flag that is one variable of the package,
\* read by every scheduler
DisableNextExecutionPackageFlag ==
    /\ isDisabled' = TRUE
    /\ others' = [b \in DOMAIN others |->
                    IF others[b] = <<>> THEN <<>> ELSE [others[b] EXCEPT ![10] = TRUE]]
    /\ UNCHANGED <<config, taskIDCounter, currentTaskID, ticker, stopChan,
                   isRunning, currentTaskCancel, closed, tickers, loops, cycles,
                   startResult, panicked, lastRecorded,
                   databases, collector, cur, partitions, today, sqlCall,
                   settings, metricTask>>

DisableNextExecution ==
    /\ isDisabled' = TRUE
    /\ UNCHANGED <<config, taskIDCounter, currentTaskID, ticker, stopChan,
                   isRunning, currentTaskCancel, closed, tickers, loops, cycles,
                   startResult, panicked, lastRecorded,
                   databases, elsewhere>>

\* EnableExecution that flips the flag in place of clearing it
EnableExecutionToggles ==
    /\ isDisabled' = ~isDisabled
    /\ UNCHANGED <<config, taskIDCounter, currentTaskID, ticker, stopChan,
                   isRunning, currentTaskCancel, closed, tickers, loops, cycles,
                   startResult, panicked, lastRecorded,
                   databases, elsewhere>>

EnableExecution ==
    /\ isDisabled' = FALSE
    /\ UNCHANGED <<config, taskIDCounter, currentTaskID, ticker, stopChan,
                   isRunning, currentTaskCancel, closed, tickers, loops, cycles,
                   startResult, panicked, lastRecorded,
                   databases, elsewhere>>

\* AbortCurrentExecution that stops the ticker as well
AbortCurrentExecutionStopsTicker ==
    /\ cycles' = IF currentTaskCancel # 0
                  THEN Cancel(cycles, currentTaskCancel)
                  ELSE cycles
    /\ tickers' = IF ticker # 0
                   THEN [tickers EXCEPT ![ticker].stopped = TRUE]
                   ELSE tickers
    /\ UNCHANGED <<config, taskIDCounter, currentTaskID, ticker, stopChan,
                   isRunning, isDisabled, currentTaskCancel, closed,
                   loops, startResult, panicked, lastRecorded,
                   databases, elsewhere>>

AbortCurrentExecution ==
    /\ cycles' = IF currentTaskCancel # 0
                  THEN Cancel(cycles, currentTaskCancel)
                  ELSE cycles
    /\ UNCHANGED <<config, taskIDCounter, currentTaskID, ticker, stopChan,
                   isRunning, isDisabled, currentTaskCancel, closed, tickers,
                   loops, startResult, panicked, lastRecorded,
                   databases, elsewhere>>

\* ------------------------------------------------------------ the ticker
\* Ticks a ticker still buffers
TicksInFlight == Cardinality({t \in 1..Len(tickers) : tickers[t].C = 1})

\* A running ticker fires: the tick is buffered in its channel (capacity 1)
Tick(t) ==
    /\ ~tickers[t].stopped
    /\ tickers[t].C = 0
    /\ taskIDCounter + TicksInFlight < MaxCycles
    /\ tickers' = [tickers EXCEPT ![t].C = 1]
    /\ UNCHANGED <<config, taskIDCounter, currentTaskID, ticker, stopChan,
                   isRunning, isDisabled, currentTaskCancel, closed, loops,
                   cycles, startResult, panicked, lastRecorded,
                   databases, elsewhere>>

\* ------------------------------------------------------------ runLoop
\* select: the two channel operands are evaluated, without the mutex
LoopSelect(l) ==
    /\ loops[l].pc = "select"
    /\ loops' = [loops EXCEPT ![l].pc = "wait", ![l].stopChan = stopChan,
                              ![l].ticker = ticker]
    /\ UNCHANGED <<config, taskIDCounter, currentTaskID, ticker, stopChan,
                   isRunning, isDisabled, currentTaskCancel, closed, tickers,
                   cycles, startResult, panicked, lastRecorded,
                   databases, elsewhere>>

\* case <-taskScheduler.stopChan: return
LoopStopped(l) ==
    /\ loops[l].pc = "wait"
    /\ loops[l].stopChan \in closed
    /\ loops' = [loops EXCEPT ![l].pc = "exit", ![l].stopChan = 0, ![l].ticker = 0]
    /\ UNCHANGED <<config, taskIDCounter, currentTaskID, ticker, stopChan,
                   isRunning, isDisabled, currentTaskCancel, closed, tickers,
                   cycles, startResult, panicked, lastRecorded,
                   databases, elsewhere>>

\* A cycle as context.WithCancel leaves it, before its goroutine is started
NewCycle ==
    [pc |-> "new", attempt |-> 0, ctxErr |-> FALSE, aborted |-> FALSE,
     calls |-> 0, succeeded |-> FALSE, permanentFailures |-> 0, stored |-> <<>>]

\* LoopTick that skips the tick while a cycle is still tracked as current
LoopTickSingleFlight(l) ==
    /\ loops[l].pc = "wait"
    /\ tickers[loops[l].ticker].C = 1
    /\ tickers' = [tickers EXCEPT ![loops[l].ticker].C = 0]
    /\ isDisabled' = FALSE
    /\ IF isDisabled \/ currentTaskCancel # 0
       THEN /\ loops' = [loops EXCEPT ![l].pc = "select", ![l].stopChan = 0,
                                      ![l].ticker = 0]
            /\ UNCHANGED <<taskIDCounter, cycles>>
       ELSE /\ taskIDCounter' = taskIDCounter + 1
            /\ cycles' = Append(cycles, NewCycle)
            /\ loops' = [loops EXCEPT ![l].pc = "store", ![l].stopChan = 0,
                                      ![l].ticker = 0,
                                      ![l].newTaskID = taskIDCounter + 1]
    /\ UNCHANGED <<config, currentTaskID, ticker, stopChan, isRunning,
                   currentTaskCancel, closed, startResult, panicked, lastRecorded,
                   databases, elsewhere>>

\* LoopTick that reads isDisabled and does not reset it
LoopTickNoReset(l) ==
    /\ loops[l].pc = "wait"
    /\ tickers[loops[l].ticker].C = 1
    /\ tickers' = [tickers EXCEPT ![loops[l].ticker].C = 0]
    /\ IF isDisabled
       THEN /\ loops' = [loops EXCEPT ![l].pc = "select", ![l].stopChan = 0,
                                      ![l].ticker = 0]
            /\ UNCHANGED <<taskIDCounter, cycles>>
       ELSE /\ taskIDCounter' = taskIDCounter + 1
            /\ cycles' = Append(cycles, NewCycle)
            /\ loops' = [loops EXCEPT ![l].pc = "store", ![l].stopChan = 0,
                                      ![l].ticker = 0,
                                      ![l].newTaskID = taskIDCounter + 1]
    /\ UNCHANGED <<config, currentTaskID, ticker, stopChan, isRunning, isDisabled,
                   currentTaskCancel, closed, startResult, panicked, lastRecorded,
                   databases, elsewhere>>

\* case <-taskScheduler.ticker.C: the tick is received; the first locked
\* section reads and resets isDisabled; a tick that is not skipped goes on to
\* atomic.AddUint64 and context.WithCancel
LoopTick(l) ==
    /\ loops[l].pc = "wait"
    /\ tickers[loops[l].ticker].C = 1
    /\ tickers' = [tickers EXCEPT ![loops[l].ticker].C = 0]
    /\ isDisabled' = FALSE
    /\ IF isDisabled
       THEN /\ loops' = [loops EXCEPT ![l].pc = "select", ![l].stopChan = 0,
                                      ![l].ticker = 0]
            /\ UNCHANGED <<taskIDCounter, cycles>>
       ELSE /\ taskIDCounter' = taskIDCounter + 1
            /\ cycles' = Append(cycles, NewCycle)
            /\ loops' = [loops EXCEPT ![l].pc = "store", ![l].stopChan = 0,
                                      ![l].ticker = 0,
                                      ![l].newTaskID = taskIDCounter + 1]
    /\ UNCHANGED <<config, currentTaskID, ticker, stopChan, isRunning,
                   currentTaskCancel, closed, startResult, panicked, lastRecorded,
                   databases, elsewhere>>

\* LoopStore that keeps a cancel func already tracked and records only the id
LoopStoreKeepsFirst(l) ==
    /\ loops[l].pc = "store"
    /\ currentTaskCancel' = IF currentTaskCancel # 0 THEN currentTaskCancel
                            ELSE loops[l].newTaskID
    /\ currentTaskID' = loops[l].newTaskID
    /\ lastRecorded' = loops[l].newTaskID
    /\ cycles' = [cycles EXCEPT ![loops[l].newTaskID].pc = "check"]
    /\ loops' = [loops EXCEPT ![l].pc = "select", ![l].newTaskID = 0]
    /\ UNCHANGED <<config, taskIDCounter, ticker, stopChan, isRunning, isDisabled,
                   closed, tickers, startResult, panicked,
                   databases, elsewhere>>

\* the second locked section, in which the cancel func and the id are
\* recorded as current, and the go statement that starts the cycle
LoopStore(l) ==
    /\ loops[l].pc = "store"
    /\ currentTaskCancel' = loops[l].newTaskID
    /\ currentTaskID' = loops[l].newTaskID
    /\ lastRecorded' = loops[l].newTaskID
    /\ cycles' = [cycles EXCEPT ![loops[l].newTaskID].pc = "check"]
    /\ loops' = [loops EXCEPT ![l].pc = "select", ![l].newTaskID = 0]
    /\ UNCHANGED <<config, taskIDCounter, ticker, stopChan, isRunning, isDisabled,
                   closed, tickers, startResult, panicked,
                   databases, elsewhere>>

\* ------------------------------------------- executeTaskWithRetries
\* Deferred that clears the cancel func and the id whatever the stored id is
DeferredClearsAlways(c) ==
    currentTaskCancel' = 0 /\ currentTaskID' = 0

\* Deferred that clears the id and leaves the cancel func
DeferredKeepsCancel(c) ==
    IF currentTaskID = c
    THEN currentTaskID' = 0 /\ UNCHANGED currentTaskCancel
    ELSE UNCHANGED <<currentTaskCancel, currentTaskID>>

\* The deferred function, run when the cycle returns: cancelFunc(), then the
\* locked section that clears the current cancel func and id if the id is
\* still this cycle's
Deferred(c) ==
    IF currentTaskID = c
    THEN currentTaskCancel' = 0 /\ currentTaskID' = 0
    ELSE UNCHANGED <<currentTaskCancel, currentTaskID>>

\* The cycle's record once it has returned
Returned(r) == [r EXCEPT !.pc = "done", !.attempt = 0, !.ctxErr = TRUE]

\* CycleCheck that stops the scheduler when the cycle fails permanently
CycleCheckStopsOnFailure(c) ==
    /\ cycles[c].pc = "check"
    /\ IF cycles[c].attempt > MaxRetries
       THEN /\ cycles' = [cycles EXCEPT
                           ![c] = Returned([@ EXCEPT !.permanentFailures = @ + 1])]
            /\ Deferred(c)
            /\ isRunning' = FALSE
       ELSE IF cycles[c].ctxErr
       THEN /\ cycles' = [cycles EXCEPT ![c] = Returned(@)]
            /\ Deferred(c)
            /\ UNCHANGED isRunning
       ELSE /\ cycles' = [cycles EXCEPT ![c].pc = "task", ![c].calls = @ + 1]
            /\ UNCHANGED <<currentTaskCancel, currentTaskID, isRunning>>
    /\ UNCHANGED <<config, taskIDCounter, ticker, stopChan,
                   isDisabled, closed, tickers,
                   loops, startResult, panicked, lastRecorded,
                   databases, elsewhere>>

\* CycleCheck with the loop condition off by one (attempt <= MaxRetries + 1)
CycleCheckOneMore(c) ==
    /\ cycles[c].pc = "check"
    /\ IF cycles[c].attempt > MaxRetries + 1
       THEN /\ cycles' = [cycles EXCEPT
                           ![c] = Returned([@ EXCEPT !.permanentFailures = @ + 1])]
            /\ Deferred(c)
       ELSE IF cycles[c].ctxErr
       THEN /\ cycles' = [cycles EXCEPT ![c] = Returned(@)]
            /\ Deferred(c)
       ELSE /\ cycles' = [cycles EXCEPT ![c].pc = "task", ![c].calls = @ + 1]
            /\ UNCHANGED <<currentTaskCancel, currentTaskID>>
    /\ UNCHANGED <<config, taskIDCounter, ticker, stopChan,
                   isRunning, isDisabled, closed, tickers,
                   loops, startResult, panicked, lastRecorded,
                   databases, elsewhere>>

\* CycleCheck without the ctx.Err() check
CycleCheckIgnoresCancel(c) ==
    /\ cycles[c].pc = "check"
    /\ IF cycles[c].attempt > MaxRetries
       THEN /\ cycles' = [cycles EXCEPT
                           ![c] = Returned([@ EXCEPT !.permanentFailures = @ + 1])]
            /\ Deferred(c)
       ELSE /\ cycles' = [cycles EXCEPT ![c].pc = "task", ![c].calls = @ + 1]
            /\ UNCHANGED <<currentTaskCancel, currentTaskID>>
    /\ UNCHANGED <<config, taskIDCounter, ticker, stopChan,
                   isRunning, isDisabled, closed, tickers,
                   loops, startResult, panicked, lastRecorded,
                   databases, elsewhere>>

\* The head of the for loop: the loop condition, the ctx.Err() check and
\* the call of the task function
CycleCheck(c) ==
    /\ cycles[c].pc = "check"
    /\ IF cycles[c].attempt > MaxRetries
       THEN /\ cycles' = [cycles EXCEPT
                           ![c] = Returned([@ EXCEPT !.permanentFailures = @ + 1])]
            /\ Deferred(c)
       ELSE IF cycles[c].ctxErr
       THEN /\ cycles' = [cycles EXCEPT ![c] = Returned(@)]
            /\ Deferred(c)
       ELSE /\ cycles' = [cycles EXCEPT ![c].pc = "task", ![c].calls = @ + 1]
            /\ UNCHANGED <<currentTaskCancel, currentTaskID>>
    /\ UNCHANGED <<config, taskIDCounter, ticker, stopChan,
                   isRunning, isDisabled, closed, tickers,
                   loops, startResult, panicked, lastRecorded,
                   databases, elsewhere>>

\* What one call of the task function can do, over every answer q of the
\* monitored server and every answer ins of the metrics database
TaskOutcomes ==
    { ProcessMetric(Payload, q, ins) : q \in QueryResults, ins \in InsertResults }

\* TaskReturn that waits for a retry after the last attempt too
\* (attempt <= MaxRetries in place of attempt < MaxRetries)
TaskReturnWaitsAfterLast(c, r) ==
    /\ cycles[c].pc = "task"
    /\ IF r[2] = ""
       THEN /\ cycles' = [cycles EXCEPT
                           ![c] = Returned([@ EXCEPT !.succeeded = TRUE,
                                                     !.stored = @ \o r[1]])]
            /\ Deferred(c)
       ELSE /\ cycles' = [cycles EXCEPT ![c].pc = "wait", ![c].stored = @ \o r[1]]
            /\ UNCHANGED <<currentTaskCancel, currentTaskID>>
    /\ UNCHANGED <<config, taskIDCounter, ticker, stopChan,
                   isRunning, isDisabled, closed, tickers,
                   loops, startResult, panicked, lastRecorded,
                   databases, elsewhere>>

\* TaskReturn of a task function bound to the context of the cycle: a
\* cancelled context interrupts the attempt, which stores nothing and fails
TaskReturnHonoursCancel(c, r) ==
    LET rr == IF cycles[c].aborted THEN << <<>>, "context canceled", 0 >> ELSE r IN
    /\ cycles[c].pc = "task"
    /\ IF rr[2] = ""
       THEN /\ cycles' = [cycles EXCEPT
                           ![c] = Returned([@ EXCEPT !.succeeded = TRUE,
                                                     !.stored = @ \o rr[1]])]
            /\ Deferred(c)
       ELSE /\ cycles' = [cycles EXCEPT
                           ![c].pc = IF cycles[c].attempt < MaxRetries
                                     THEN "wait" ELSE "check",
                           ![c].attempt = IF cycles[c].attempt < MaxRetries
                                          THEN @ ELSE @ + 1,
                           ![c].stored = @ \o rr[1]]
            /\ UNCHANGED <<currentTaskCancel, currentTaskID>>
    /\ UNCHANGED <<config, taskIDCounter, ticker, stopChan,
                   isRunning, isDisabled, closed, tickers,
                   loops, startResult, panicked, lastRecorded,
                   databases, elsewhere>>

\* The task function returns r = <<rows inserted, err>>
TaskReturn(c, r) ==
    /\ cycles[c].pc = "task"
    /\ IF r[2] = ""
       THEN /\ cycles' = [cycles EXCEPT
                           ![c] = Returned([@ EXCEPT !.succeeded = TRUE,
                                                     !.stored = @ \o r[1]])]
            /\ Deferred(c)
       ELSE /\ cycles' = [cycles EXCEPT
                           ![c].pc = IF cycles[c].attempt < MaxRetries
                                     THEN "wait" ELSE "check",
                           ![c].attempt = IF cycles[c].attempt < MaxRetries
                                          THEN @ ELSE @ + 1,
                           ![c].stored = @ \o r[1]]
            /\ UNCHANGED <<currentTaskCancel, currentTaskID>>
    /\ UNCHANGED <<config, taskIDCounter, ticker, stopChan,
                   isRunning, isDisabled, closed, tickers,
                   loops, startResult, panicked, lastRecorded,
                   databases, elsewhere>>

\* The task function returns what ProcessMetric computes from the answers of
\* the two databases
TaskCall(c) ==
    /\ queryResult \in QueryResults
    /\ insertResult \in InsertResults
    /\ TaskReturn(c, ProcessMetric(Payload, queryResult, insertResult))

\* select: case <-time.After(RetryDelay), then attempt++
CycleRetry(c) ==
    /\ cycles[c].pc = "wait"
    /\ cycles' = [cycles EXCEPT ![c].pc = "check", ![c].attempt = @ + 1]
    /\ UNCHANGED <<config, taskIDCounter, currentTaskID, ticker, stopChan,
                   isRunning, isDisabled, currentTaskCancel, closed, tickers,
                   loops, startResult, panicked, lastRecorded,
                   databases, elsewhere>>

\* select: case <-ctx.Done(): return
CycleAbortWait(c) ==
    /\ cycles[c].pc = "wait"
    /\ cycles[c].ctxErr
    /\ cycles' = [cycles EXCEPT ![c] = Returned(@)]
    /\ Deferred(c)
    /\ UNCHANGED <<config, taskIDCounter, ticker, stopChan,
                   isRunning, isDisabled, closed, tickers,
                   loops, startResult, panicked, lastRecorded,
                   databases, elsewhere>>

\* ------------------------------------------------------------ Collector
Schedulers == 1..MaxSchedulers

\* The schedulers NewCollector builds, one per metric of a server: the task
\* function is always ProcessMetric; interval and max retries come from the
\* metric's configuration, which admits an interval that is not positive
NewSchedulers ==
    { <<iv, mr, "ProcessMetric",
        [CollectionType |-> "sql", GoFunction |-> "", ServerID |-> 7, MetricID |-> 3],
        0, 0, 0, 1, FALSE, FALSE, 0, {}, <<>>, <<>>, <<>>, "none", FALSE, 0>> :
        iv \in {0, 1}, mr \in 0..MaxRetriesBound }

\* The scheduler in view is t
InView(t) ==
    /\ Interval = t[1]
    /\ MaxRetries = t[2]
    /\ Task = t[3]
    /\ Payload = t[4]
    /\ taskIDCounter = t[5]
    /\ currentTaskID = t[6]
    /\ ticker = t[7]
    /\ stopChan = t[8]
    /\ isRunning = t[9]
    /\ isDisabled = t[10]
    /\ currentTaskCancel = t[11]
    /\ closed = t[12]
    /\ tickers = t[13]
    /\ loops = t[14]
    /\ cycles = t[15]
    /\ startResult = t[16]
    /\ panicked = t[17]
    /\ lastRecorded = t[18]

\* Scheduler b of the list, with its runtime objects
State(b) == IF b = cur THEN scheduler ELSE others[b]

\* NewCollector: the list of schedulers, none started
InitCollector ==
    /\ cur = 1
    /\ \E t \in NewSchedulers : InView(t)
    /\ others \in { f \in [Schedulers -> NewSchedulers \cup {<<>>}] :
                      \A b \in Schedulers : (f[b] = <<>>) <=> (b = 1) }
    /\ collector = [pc |-> "idle", i |-> 0, op |-> "none", returned |-> "none"]
    /\ queryResult = "any"
    /\ insertResult = "any"
    /\ partitions = {}
    /\ today = 0
    /\ sqlCall = NoCall
    /\ settings = "none"
    /\ metricTask = "none"

\* The view moves to scheduler b of the list: every method and goroutine
\* step acts on one scheduler, the one it was called on or started by
Switch(b) ==
    /\ b # cur
    /\ Interval' = others[b][1]
    /\ MaxRetries' = others[b][2]
    /\ Task' = others[b][3]
    /\ Payload' = others[b][4]
    /\ taskIDCounter' = others[b][5]
    /\ currentTaskID' = others[b][6]
    /\ ticker' = others[b][7]
    /\ stopChan' = others[b][8]
    /\ isRunning' = others[b][9]
    /\ isDisabled' = others[b][10]
    /\ currentTaskCancel' = others[b][11]
    /\ closed' = others[b][12]
    /\ tickers' = others[b][13]
    /\ loops' = others[b][14]
    /\ cycles' = others[b][15]
    /\ startResult' = others[b][16]
    /\ panicked' = others[b][17]
    /\ lastRecorded' = others[b][18]
    /\ others' = [others EXCEPT ![cur] = scheduler, ![b] = <<>>]
    /\ cur' = b
    /\ UNCHANGED <<databases, collector, partitions, today, sqlCall, settings, metricTask>>

\* Collector.Start() is called
CollectorStart ==
    /\ collector.pc = "idle"
    /\ collector.op = "none"
    /\ collector' = [pc |-> "start", i |-> 1, op |-> "Start", returned |-> "none"]
    /\ UNCHANGED <<scheduler, databases, beyond>>

\* CollectorStartStep that goes on to the next scheduler after an error
CollectorStartStepGoesOn ==
    /\ collector.pc = "start"
    /\ cur = collector.i
    /\ StartCall
    /\ collector' = IF collector.i < MaxSchedulers
                    THEN [collector EXCEPT !.i = @ + 1]
                    ELSE [collector EXCEPT !.pc = "idle", !.i = @ + 1, !.returned = "nil"]

\* One turn of the loop of Collector.Start(): scheduler i is started; an error
\* is returned at once, and the return after the last scheduler is nil
CollectorStartStep ==
    /\ collector.pc = "start"
    /\ cur = collector.i
    /\ StartCall
    /\ collector' = IF startResult' # "ok"
                    THEN [collector EXCEPT !.pc = "idle", !.returned = startResult']
                    ELSE IF collector.i < MaxSchedulers
                    THEN [collector EXCEPT !.i = @ + 1]
                    ELSE [collector EXCEPT !.pc = "idle", !.i = @ + 1, !.returned = "nil"]

\* Collector.Stop() is called
CollectorStop ==
    /\ collector.pc = "idle"
    /\ collector.op # "Stop"
    /\ collector' = [pc |-> "stop", i |-> 1, op |-> "Stop", returned |-> "none"]
    /\ UNCHANGED <<scheduler, databases, beyond>>

\* CollectorStopStep that stops only the schedulers whose Start() returned nil
CollectorStopStepOnlyStarted ==
    /\ collector.pc = "stop"
    /\ cur = collector.i
    /\ IF startResult = "ok"
       THEN StopCall
       ELSE UNCHANGED <<scheduler, databases, beyond>>
    /\ collector' = IF collector.i < MaxSchedulers
                    THEN [collector EXCEPT !.i = @ + 1]
                    ELSE [collector EXCEPT !.pc = "idle", !.i = @ + 1, !.returned = "void"]

\* One turn of the loop of Collector.Stop(): scheduler i is stopped
CollectorStopStep ==
    /\ collector.pc = "stop"
    /\ cur = collector.i
    /\ StopCall
    /\ collector' = IF collector.i < MaxSchedulers
                    THEN [collector EXCEPT !.i = @ + 1]
                    ELSE [collector EXCEPT !.pc = "idle", !.i = @ + 1, !.returned = "void"]

\* A ticker of a scheduler of the list fires
ListTick(t) ==
    /\ taskIDCounter + TicksInFlight < MaxListCycles
    /\ Tick(t)

\* The owner calls Start() at most once and Stop() once, as main does; every
\* goroutine of every scheduler runs, and the other API methods are called at
\* any time
NextCollector ==
    \/ \E b \in Schedulers : Switch(b)
    \/ CollectorStart
    \/ CollectorStartStep
    \/ CollectorStop
    \/ CollectorStopStep
    \/ DisableNextExecution
    \/ AbortCurrentExecution
    \/ \E t \in 1..Len(tickers) : ListTick(t)
    \/ \E l \in 1..Len(loops) : LoopSelect(l)
    \/ \E l \in 1..Len(loops) : LoopStopped(l)
    \/ \E l \in 1..Len(loops) : LoopTick(l)
    \/ \E l \in 1..Len(loops) : LoopStore(l)
    \/ \E c \in 1..Len(cycles) : CycleCheck(c)
    \/ \E c \in 1..Len(cycles) : \E r \in TaskOutcomes : TaskReturn(c, r)
    \/ \E c \in 1..Len(cycles) : CycleRetry(c)
    \/ \E c \in 1..Len(cycles) : CycleAbortWait(c)

CollectorSpec == InitCollector /\ [][NextCollector]_vars

\* ------------------------------------------------------------------ Next
Next ==
    \/ Start
    \/ Stop
    \/ DisableNextExecution
    \/ EnableExecution
    \/ AbortCurrentExecution
    \/ \E t \in 1..Len(tickers) : Tick(t)
    \/ \E l \in 1..Len(loops) : LoopSelect(l)
    \/ \E l \in 1..Len(loops) : LoopStopped(l)
    \/ \E l \in 1..Len(loops) : LoopTick(l)
    \/ \E l \in 1..Len(loops) : LoopStore(l)
    \/ \E c \in 1..Len(cycles) : CycleCheck(c)
    \/ \E c \in 1..Len(cycles) : \E r \in TaskOutcomes : TaskReturn(c, r)
    \/ \E c \in 1..Len(cycles) : CycleRetry(c)
    \/ \E c \in 1..Len(cycles) : CycleAbortWait(c)

Spec == Init /\ [][Next]_vars

\* The scheduler driving ProcessMetric against databases whose answers are
\* fixed for the behaviour.  The owner starts the scheduler and leaves it
\* running: it may abort the current execution, it does not stop the
\* scheduler or skip a tick.
NextTask ==
    \/ Start
    \/ AbortCurrentExecution
    \/ \E t \in 1..Len(tickers) : Tick(t)
    \/ \E l \in 1..Len(loops) : LoopSelect(l)
    \/ \E l \in 1..Len(loops) : LoopTick(l)
    \/ \E l \in 1..Len(loops) : LoopStore(l)
    \/ \E c \in 1..Len(cycles) : CycleCheck(c)
    \/ \E c \in 1..Len(cycles) : TaskCall(c)
    \/ \E c \in 1..Len(cycles) : CycleRetry(c)
    \/ \E c \in 1..Len(cycles) : CycleAbortWait(c)

TaskSpec == InitTask /\ [][NextTask]_vars

\* The same scheduler with every max-retries the configuration can deliver
DeliveredSpec == InitDelivered /\ [][NextTask]_vars

\* ==================================================================
\* Properties
\* ==================================================================
Cycles == 1..Len(cycles)
Loops  == 1..Len(loops)

\* C1: within one cycle the task function is invoked at most MaxRetries+1
\* times (MaxRetries >= 0), and a cycle whose attempt returned success has
\* ended: it is in no state from which the task function is invoked again.
C1_AttemptsBounded ==
    \A c \in Cycles :
        /\ MaxRetries >= 0 => cycles[c].calls <= MaxRetries + 1
        /\ cycles[c].succeeded => cycles[c].pc = "done"
        /\ cycles[c].pc = "task" => cycles[c].calls = cycles[c].attempt + 1

\* a cycle that used every one of its attempts (at least two) and succeeded on the last
C1_Witness ==
    \E c \in Cycles :
        /\ cycles[c].pc = "done" /\ cycles[c].succeeded
        /\ cycles[c].calls = MaxRetries + 1 /\ MaxRetries >= 1

\* C2: a cycle that was never cancelled and ended without a successful
\* attempt made all MaxRetries+1 attempts, logged exactly one permanent
\* failure and stored no record; a cycle waits for a retry only while
\* attempts remain, and no cycle logs more than one permanent failure.
C2_PermanentFailureOnce ==
    \A c \in Cycles :
        /\ (cycles[c].pc = "done" /\ ~cycles[c].aborted /\ ~cycles[c].succeeded)
              => /\ cycles[c].calls = MaxRetries + 1
                 /\ cycles[c].permanentFailures = 1
                 /\ cycles[c].stored = <<>>
        /\ cycles[c].pc = "wait" => cycles[c].attempt < MaxRetries
        /\ cycles[c].permanentFailures <= 1
        /\ cycles[c].permanentFailures = 1 => ~cycles[c].succeeded

\* a never-cancelled cycle that failed twice and logged its permanent failure
C2_Witness ==
    \E c \in Cycles :
        /\ cycles[c].pc = "done" /\ ~cycles[c].aborted /\ ~cycles[c].succeeded
        /\ cycles[c].calls = 2 /\ cycles[c].permanentFailures = 1

\* C3: a cycle whose context was cancelled by AbortCurrentExecution or Stop
\* before the cycle ended logs no permanent failure.
C3_CancelledLogsNoPermanentFailure ==
    \A c \in Cycles : cycles[c].aborted => cycles[c].permanentFailures = 0

\* C4: a dispatch loop whose Start() has been followed by a completed Stop()
\* has exited or can still take a step: it is never left blocked in its
\* select on a stop channel nobody has closed and a ticker with no tick.
C4_StoppedLoopExits ==
    \A l \in Loops :
        tickers[l].stopped =>
            \/ loops[l].pc \in {"exit", "select", "store"}
            \/ /\ loops[l].pc = "wait"
               /\ \/ loops[l].stopChan \in closed
                  \/ tickers[loops[l].ticker].C = 1

\* C5: a step in which Stop() or AbortCurrentExecution() cancels the context
\* of a live cycle cancels the cycle most recently recorded as current and
\* no other: every other cycle's context is left as it was.
C5_CancelReachesOnlyLatest ==
    [][\A c \in Cycles :
         ((~cycles[c].aborted /\ cycles'[c].aborted) => (c = lastRecorded))]_vars

\* Stop() has returned, its cancellation reached the latest cycle, and an
\* older cycle is still running an attempt under a context nobody cancelled
C5_Witness ==
    /\ ~isRunning /\ stopChan > 1
    /\ lastRecorded \in Cycles /\ cycles[lastRecorded].aborted
    /\ \E c \in Cycles :
         /\ c < lastRecorded
         /\ cycles[c].pc = "task" /\ ~cycles[c].ctxErr

\* a tick is consumed by loop l in this step
TickConsumed(l) == loops[l].pc = "wait" /\ loops'[l].pc \in {"select", "store"}

\* loop l records and starts its new cycle in this step
CycleStarted(l) == loops[l].pc = "store" /\ loops'[l].pc = "select"

\* C6: a tick that is not skipped creates a new cycle whatever the cycles in
\* flight are doing, and neither that step nor the step that records and
\* starts the new cycle changes any older cycle (none is waited for, none
\* is cancelled).
C6_TickDoesNotWaitOrCancel ==
    [][\A l \in Loops :
         /\ (TickConsumed(l) /\ ~isDisabled)
              => /\ Len(cycles') = Len(cycles) + 1
                 /\ \A c \in Cycles : cycles'[c] = cycles[c]
         /\ CycleStarted(l)
              => /\ \A c \in Cycles \ {loops[l].newTaskID} : cycles'[c] = cycles[c]
                 /\ cycles'[loops[l].newTaskID] =
                      [cycles[loops[l].newTaskID] EXCEPT !.pc = "check"]]_vars

\* two cycles of the scheduler are inside the task function at the same time
C6_Witness ==
    /\ Len(cycles) >= 2
    /\ cycles[1].pc = "task" /\ ~cycles[1].ctxErr
    /\ cycles[2].pc = "task" /\ ~cycles[2].ctxErr

\* C7: whenever a cancel func is tracked, the stored current cycle id is the
\* id of the cycle that cancel func belongs to (the scheduler has one field
\* for the cancel func, so at most one is tracked).
C7_HandleMatchesId ==
    currentTaskCancel # 0 =>
        /\ currentTaskID = currentTaskCancel
        /\ currentTaskCancel \in Cycles
        /\ cycles[currentTaskCancel].pc # "new"

\* an older cycle has ended while a newer cycle's cancel func stays tracked
C7_Witness ==
    /\ currentTaskCancel = 2 /\ currentTaskID = 2
    /\ cycles[1].pc = "done" /\ cycles[2].pc # "done"

\* C8: the tick consumed while the skip flag is set creates no cycle and
\* clears the flag; a tick consumed while the flag is clear creates a cycle;
\* and only a call of DisableNextExecution() sets the flag, so the tick after
\* a skipped one dispatches unless DisableNextExecution() is called again.
C8_SkipIsOneShot ==
    [][/\ \A l \in Loops :
            TickConsumed(l) =>
                /\ isDisabled' = FALSE
                /\ isDisabled => /\ loops'[l].pc = "select"
                                 /\ cycles' = cycles
                                 /\ taskIDCounter' = taskIDCounter
                                 /\ currentTaskCancel' = currentTaskCancel
                /\ ~isDisabled => /\ loops'[l].pc = "store"
                                  /\ taskIDCounter' = taskIDCounter + 1
       /\ (~isDisabled /\ isDisabled')
            => /\ loops' = loops /\ cycles' = cycles /\ tickers' = tickers]_vars

\* tick N dispatched a cycle, DisableNextExecution() was called, and tick N+1
\* is waiting at the dispatch loop
C8_Witness ==
    /\ isRunning /\ isDisabled /\ Len(cycles) = 1
    /\ \E l \in Loops : loops[l].pc = "wait" /\ tickers[loops[l].ticker].C = 1

StartErrors == {"already_running", "nil_task", "invalid_interval"}

\* C9 as stated: once Start() has returned an error, the scheduler invokes
\* the task function in no cycle.
C9_NoCycleAfterStartError ==
    [][(startResult \in StartErrors) =>
         (\A c \in Cycles : cycles'[c].calls = cycles[c].calls)]_vars

\* C9 as amended: a Start() that returns an error creates no ticker and no
\* dispatch loop, and a scheduler with a nil task function or an interval
\* <= 0 never has a ticker, a dispatch loop or a cycle.
C9_StartRejects ==
    /\ [][(/\ startResult' \in StartErrors
           /\ startResult' # startResult \/ (~isRunning /\ isRunning'))
            => /\ ticker' = ticker /\ tickers' = tickers
               /\ loops' = loops /\ cycles' = cycles]_vars
    /\ []((Task = "nil" \/ Interval <= 0)
            => /\ ticker = 0 /\ tickers = <<>>
               /\ loops = <<>> /\ cycles = <<>>)

\* Start() was rejected for its interval
C9_Witness ==
    /\ Interval <= 0 /\ startResult = "invalid_interval"
    /\ ticker = 0 /\ loops = <<>>

\* C10: Stop() never closes a closed stop channel and never dereferences a
\* nil ticker.
C10_StopNeverPanics == ~panicked

\* Stop() has run to its end on a scheduler whose Start() failed for its interval
C10_Witness ==
    /\ Interval <= 0 /\ startResult = "invalid_interval"
    /\ ~isRunning /\ stopChan > 1 /\ ticker = 0 /\ ~panicked

\* C11: a step taken while the scheduler is not running (Stop() is then a
\* no-op) closes no stop channel, installs no new stop channel and stops no
\* ticker, and a step that cancels a context while the scheduler is not
\* running leaves the tracked cancel func in place (it is
\* AbortCurrentExecution's, never Stop's); the skip flag is changed by no
\* step that changes what Stop() writes.
C11_StopNotRunningNoOp ==
    [][(~isRunning) =>
         (/\ closed' = closed
          /\ stopChan' = stopChan
          /\ \A t \in 1..Len(tickers) : tickers'[t].stopped = tickers[t].stopped
          /\ \A c \in Cycles :
                (~cycles[c].aborted /\ cycles'[c].aborted)
                    => (currentTaskCancel' = currentTaskCancel /\ isDisabled' = isDisabled))]_vars

\* the scheduler has been stopped and a dispatch loop that outlived the
\* Stop() has since recorded a cancel func: a second Stop() finds it untouched
C11_Witness ==
    /\ ~isRunning /\ stopChan > 1 /\ closed # {}
    /\ currentTaskCancel # 0 /\ ~cycles[currentTaskCancel].ctxErr

\* C12: the step in which Stop() stops a running scheduler closes the old
\* stop channel and installs a new, open one; the stop channel in the field
\* is never a closed one; a Start() on a stopped scheduler with a task
\* function and an interval > 0 succeeds with a new running ticker and a new
\* dispatch loop; and a tick consumed with the skip flag clear dispatches a
\* cycle, before and after a restart.
C12_StopAllowsRestart ==
    /\ [][(isRunning /\ ~isRunning')
             => (/\ stopChan' # stopChan
                 /\ stopChan \in closed'
                 /\ stopChan' \notin closed')]_vars
    /\ [](stopChan \notin closed)
    /\ [][(~isRunning /\ isRunning' /\ Task # "nil" /\ Interval > 0)
             => (/\ startResult' = "ok"
                 /\ Len(loops') = Len(loops) + 1
                 /\ loops'[Len(loops')].pc = "select"
                 /\ Len(tickers') = Len(tickers) + 1
                 /\ ticker' = Len(tickers')
                 /\ tickers'[ticker'] = [stopped |-> FALSE, C |-> 0])]_vars
    /\ [][\A l \in Loops :
             (TickConsumed(l) /\ ~isDisabled) => (Len(cycles') = Len(cycles) + 1)]_vars

\* the scheduler was stopped, its first dispatch loop exited, it was started
\* again, and the second dispatch loop is dispatching a cycle for a tick
C12_Witness ==
    /\ isRunning /\ stopChan = 2 /\ Len(loops) = 2
    /\ loops[1].pc = "exit"
    /\ loops[2].pc = "store" /\ loops[2].newTaskID = 1

\* C13: the step in which a cycle logs its permanent failure changes nothing
\* but that cycle and the tracking of the current cycle: the running flag,
\* the skip flag, the ticker, the dispatch loops, the stop channel and what
\* Start() returned stay as they were; and every tick consumed with the skip
\* flag clear creates a cycle that starts from attempt 0 with no call made.
C13_PermanentFailureIsLocal ==
    /\ [][\A c \in Cycles :
             (cycles'[c].permanentFailures # cycles[c].permanentFailures)
                 => (/\ isRunning' = isRunning /\ isDisabled' = isDisabled
                     /\ ticker' = ticker /\ tickers' = tickers /\ loops' = loops
                     /\ stopChan' = stopChan /\ closed' = closed
                     /\ startResult' = startResult /\ panicked' = panicked
                     /\ \A d \in Cycles \ {c} : cycles'[d] = cycles[d])]_vars
    /\ [][\A l \in Loops :
             (TickConsumed(l) /\ ~isDisabled)
                 => (/\ Len(cycles') = Len(cycles) + 1
                     /\ cycles'[Len(cycles')] = NewCycle)]_vars
    /\ [](\A c \in Cycles :
             cycles[c].pc = "new" => (cycles[c].attempt = 0 /\ cycles[c].calls = 0))

\* cycle 1 has failed permanently after two attempts, the scheduler is still
\* running, and the next tick has just created cycle 2
C13_Witness ==
    /\ isRunning /\ MaxRetries >= 1 /\ Len(cycles) = 2
    /\ cycles[1].pc = "done" /\ cycles[1].permanentFailures = 1 /\ ~cycles[1].aborted
    /\ cycles[2].pc = "new"

\* ------------------------------------------------ the task function
IsSql    == Payload.CollectionType = "sql"
IsUptime == Payload.CollectionType = "go_func" /\ Payload.GoFunction = "collectPostgresUptime"

\* the answers of the two databases are fixed, and so is what every attempt returns
Attempt == ProcessMetric(Payload, queryResult, insertResult)

\* cycle c has had an attempt return
AttemptReturned(c) == cycles[c].calls >= 1 /\ cycles[c].pc # "task"

\* the one row a successful insert of value v adds for this task
Row(v) == [server_id |-> Payload.ServerID, metric_id |-> Payload.MetricID, metric_value |-> v]

ContractViolations == {"two_rows", "two_columns", "non_json"}
ProbeFailures == {"exec_error", "timeout", "two_columns", "non_json", "two_rows"}

\* C14: for a sql task whose script returns zero rows, every attempt returns
\* an error: no cycle ends in success, and a cycle that ran its attempts to
\* the end without being cancelled logged a permanent failure.
C14_ZeroRowsFailsAttempt ==
    (IsSql /\ queryResult = "zero_rows") =>
        \A c \in Cycles :
            /\ ~cycles[c].succeeded
            /\ (cycles[c].pc = "done" /\ ~cycles[c].aborted)
                  => cycles[c].permanentFailures = 1

\* C15: for a sql task whose script returns two rows, two columns or a
\* column that is not JSON, every attempt returns an error without calling
\* the insert: no cycle succeeds, no cycle stores a row, and an attempt that
\* returned left the cycle retrying or failed.
C15_ContractViolationNoInsert ==
    (IsSql /\ queryResult \in ContractViolations) =>
        /\ Attempt[2] # "" /\ Attempt[3] = 0 /\ Attempt[1] = <<>>
        /\ \A c \in Cycles :
              /\ ~cycles[c].succeeded
              /\ cycles[c].stored = <<>>
              /\ (cycles[c].pc = "done" /\ ~cycles[c].aborted)
                    => (cycles[c].calls = MaxRetries + 1 /\ cycles[c].permanentFailures = 1)

\* a sql cycle has ended in permanent failure on a script that returns two rows
C15_Witness ==
    /\ IsSql /\ queryResult = "two_rows" /\ insertResult = "ok"
    /\ \E c \in Cycles :
         /\ cycles[c].pc = "done" /\ cycles[c].calls = MaxRetries + 1
         /\ cycles[c].permanentFailures = 1 /\ cycles[c].stored = <<>>

\* C16: for a sql task whose script returns one row with one JSON column
\* holding SQL NULL, the attempt returns success without calling the insert:
\* the cycle makes one call, ends in success after it, stores no row, never
\* waits for a retry and logs no permanent failure.
C16_NullEndsCycleWithoutStore ==
    (IsSql /\ queryResult = "null") =>
        /\ Attempt[2] = "" /\ Attempt[3] = 0
        /\ \A c \in Cycles :
              /\ cycles[c].calls <= 1
              /\ cycles[c].stored = <<>>
              /\ cycles[c].pc # "wait"
              /\ cycles[c].permanentFailures = 0
              /\ AttemptReturned(c) => (cycles[c].pc = "done" /\ cycles[c].succeeded)

\* a sql cycle that could have retried has ended in success on a NULL value
C16_Witness ==
    /\ IsSql /\ queryResult = "null" /\ MaxRetries >= 1
    /\ \E c \in Cycles :
         /\ cycles[c].pc = "done" /\ cycles[c].succeeded /\ ~cycles[c].aborted
         /\ cycles[c].calls = 1 /\ cycles[c].stored = <<>>

\* C17: when the query returns a JSON value p that is not null and the
\* insert succeeds, the cycle makes one call and ends in success after it,
\* having stored exactly one row: the task's server id, the task's metric
\* id and p itself; before the attempt returns nothing is stored.
C17_OneRowStored ==
    LET p == ExecuteMetricValueGetScript(queryResult) IN
    ((IsSql \/ IsUptime) /\ p[2] = "" /\ p[1] # "nil" /\ insertResult = "ok") =>
        /\ Attempt = << <<Row(p[1])>>, "", 1 >>
        /\ \A c \in Cycles :
              /\ cycles[c].calls <= 1
              /\ cycles[c].pc # "wait"
              /\ cycles[c].permanentFailures = 0
              /\ AttemptReturned(c)
                    => (/\ cycles[c].pc = "done" /\ cycles[c].succeeded
                        /\ cycles[c].stored = <<Row(p[1])>>)
              /\ ~AttemptReturned(c) => cycles[c].stored = <<>>

\* a sql cycle that could have retried has stored its one row and ended
C17_Witness ==
    /\ IsSql /\ queryResult = "value" /\ insertResult = "ok" /\ MaxRetries >= 1
    /\ \E c \in Cycles :
         /\ cycles[c].pc = "done" /\ cycles[c].succeeded /\ cycles[c].calls = 1
         /\ cycles[c].stored = <<Row(ScriptValue)>>

\* C18: when an attempt calls the insert and the insert fails, the attempt
\* returns an error and stores nothing; the cycle calls the whole task
\* function again while attempts remain (it waits for a retry only then),
\* and a cycle that made all MaxRetries+1 calls and ended logged exactly one
\* permanent failure.
C18_InsertFailureRetried ==
    (Attempt[3] = 1 /\ insertResult = "error") =>
        /\ Attempt[2] # "" /\ Attempt[1] = <<>>
        /\ \A c \in Cycles :
              /\ ~cycles[c].succeeded
              /\ cycles[c].stored = <<>>
              /\ cycles[c].pc = "wait" => cycles[c].attempt < MaxRetries
              /\ cycles[c].pc = "task" => cycles[c].calls = cycles[c].attempt + 1
              /\ cycles[c].permanentFailures <= 1
              /\ (cycles[c].pc = "done" /\ cycles[c].calls = MaxRetries + 1)
                    => cycles[c].permanentFailures = 1
              /\ (cycles[c].pc = "done" /\ ~cycles[c].aborted)
                    => cycles[c].calls = MaxRetries + 1

\* a sql cycle whose insert failed in both of its attempts has logged its
\* permanent failure
C18_Witness ==
    /\ IsSql /\ queryResult = "value" /\ insertResult = "error" /\ MaxRetries = 1
    /\ \E c \in Cycles :
         /\ cycles[c].pc = "done" /\ ~cycles[c].aborted
         /\ cycles[c].calls = 2 /\ cycles[c].permanentFailures = 1

\* C19: for a task whose collection kind or function name is unknown, a
\* cycle invokes the task function once and never waits for a retry.
C19_UnknownRoutineNotRetried ==
    (~IsSql /\ ~IsUptime) =>
        \A c \in Cycles : cycles[c].calls <= 1 /\ cycles[c].pc # "wait"

\* C20: in the uptime routine, when the probe query fails and the insert of
\* the sentinel succeeds, the attempt returns success with one row holding
\* the zero sentinel: the cycle makes one call, ends in success after it
\* with that one row stored, never waits for a retry and logs no permanent
\* failure.
C20_UptimeSentinel ==
    (IsUptime /\ queryResult \in ProbeFailures /\ insertResult = "ok") =>
        /\ Attempt = << <<Row(ZeroUptimeValue)>>, "", 1 >>
        /\ \A c \in Cycles :
              /\ cycles[c].calls <= 1
              /\ cycles[c].pc # "wait"
              /\ cycles[c].permanentFailures = 0
              /\ AttemptReturned(c)
                    => (/\ cycles[c].pc = "done" /\ cycles[c].succeeded
                        /\ cycles[c].stored = <<Row(ZeroUptimeValue)>>)
              /\ ~AttemptReturned(c) => cycles[c].stored = <<>>

\* an uptime cycle that could have retried has stored the sentinel and ended
C20_Witness ==
    /\ IsUptime /\ queryResult = "exec_error" /\ insertResult = "ok" /\ MaxRetries >= 1
    /\ \E c \in Cycles :
         /\ cycles[c].pc = "done" /\ cycles[c].succeeded /\ cycles[c].calls = 1
         /\ cycles[c].stored = <<Row(ZeroUptimeValue)>>

\* ------------------------------------------------------------ C23
\* The fields runLoop evaluates without the mutex when it enters its select
unlockedReads == <<stopChan, ticker>>

\* A dispatch loop that is about to evaluate its select
AtSelect(l) == loops[l].pc = "select"

\* C23: no mutable scheduler state is accessed by two goroutines without the
\* mutex.  runLoop reads stopChan and ticker without the mutex when it enters
\* its select, so the claim requires that no other goroutine writes either
\* field while a dispatch loop is at that point: a step that changes stopChan
\* or ticker happens only when no dispatch loop is about to evaluate its select.
C23_NoUnlockedSharedAccess ==
    [][(unlockedReads' # unlockedReads) => (\A l \in Loops : ~AtSelect(l))]_vars

\* ------------------------------------------------------------ C25
\* A cycle whose context is cancelled and that is in the inter-retry wait or
\* at the check that precedes an attempt
CancelledBeforeAttempt(c) ==
    cycles[c].ctxErr /\ cycles[c].pc \in {"wait", "check"}

\* C25: a cycle whose context is cancelled while it waits the inter-retry
\* delay leaves the wait and exits without another call of the task function,
\* and a cycle whose context is cancelled at a pre-attempt check makes neither
\* that attempt nor a later one: from such a state no step adds a call, the
\* wait is left only for the check or the exit, and the check only for the exit.
C25_CancelledCycleMakesNoCall ==
    [][\A c \in Cycles :
         CancelledBeforeAttempt(c) =>
            (/\ cycles'[c].calls = cycles[c].calls
             /\ cycles'[c].pc \in {cycles[c].pc, "check", "done"}
             /\ (cycles[c].pc = "check" => cycles'[c].pc \in {"check", "done"}))]_vars

\* a cycle with a retry left that was cancelled after its first failed attempt
\* and has exited with that one call
C25_Witness ==
    /\ MaxRetries = 1
    /\ \E c \in Cycles :
         /\ cycles[c].pc = "done" /\ cycles[c].aborted
         /\ cycles[c].calls = 1 /\ ~cycles[c].succeeded
         /\ cycles[c].permanentFailures = 0

\* ------------------------------------------------------------ C26
\* Dispatch loop l allocates a cycle id in this step
Allocates(l) == loops[l].pc = "wait" /\ loops'[l].pc = "store"

\* C26: the cycle ids one scheduler allocates are never 0, strictly increase
\* in allocation order and are never reused, also across Stop()/Start()
\* restarts: an id allocated in a step is not 0 and is greater than the id of
\* every cycle created before, whichever dispatch loop allocated that one.
C26_CycleIdsFresh ==
    [][\A l \in Loops :
         Allocates(l) =>
            (/\ loops'[l].newTaskID # 0
             /\ \A c \in Cycles : loops'[l].newTaskID > c
             /\ \A k \in Loops : loops'[l].newTaskID > loops[k].newTaskID)]_vars

\* the dispatch loop of a second Start(), after a Stop(), has allocated the
\* second id of the scheduler
C26_Witness ==
    /\ stopChan = 2
    /\ Len(loops) = 2
    /\ loops[2].pc = "store"
    /\ loops[2].newTaskID = 2

\* ------------------------------------------------------------ C21
\* Start() has been called on scheduler b of the list
StartCalled(b) == State(b)[16] # "none"

\* The running flag of scheduler b of the list
Running(b) == State(b)[9]

\* C21: Collector.Start() starts the schedulers in list order, returns the
\* error of the first Start() that fails, calls Start() on no scheduler after
\* that one and leaves the schedulers before it running.  From the call of
\* Collector.Start() until Collector.Stop() is called: Start() has been
\* called on exactly the schedulers before index i, and on scheduler i too
\* once Collector.Start() has returned its error; those before i returned nil
\* and are running; what Collector.Start() returned is the error of scheduler
\* i, or nil after the last scheduler.
C21_StartInOrderUntilFirstError ==
    (collector.op = "Start") =>
        /\ \A b \in Schedulers :
             StartCalled(b) <=> (b < collector.i \/ (b = collector.i /\ collector.pc = "idle"))
        /\ \A b \in Schedulers :
             (b < collector.i) => (State(b)[16] = "ok" /\ Running(b))
        /\ (collector.pc = "idle") =>
             IF collector.i \in Schedulers
             THEN collector.returned = State(collector.i)[16] /\ collector.returned \in StartErrors
             ELSE collector.returned = "nil"

\* Collector.Start() has returned the error of the second scheduler and the
\* first is running
C21_Witness ==
    /\ collector.op = "Start" /\ collector.pc = "idle"
    /\ collector.i = 2
    /\ collector.returned = "invalid_interval"
    /\ Running(1)

\* ------------------------------------------------------------ C22
\* C22: once Collector.Stop() has returned, the running flag of every
\* scheduler of the list is false, whether Collector.Start() started all of
\* them, returned at a failing one or was never called; Collector.Stop()
\* returns nothing and no Stop() it calls panics.
C22_StopStopsEveryScheduler ==
    (collector.op = "Stop" /\ collector.pc = "idle") =>
        /\ \A b \in Schedulers : ~Running(b) /\ ~State(b)[17]
        /\ collector.returned = "void"

\* Collector.Stop() has returned after a Collector.Start() that started the
\* first scheduler and returned the error of the second
C22_Witness ==
    /\ collector.op = "Stop" /\ collector.pc = "idle"
    /\ State(1)[16] = "ok"
    /\ State(2)[16] = "invalid_interval"
    /\ State(1)[8] = 2
    /\ State(2)[8] = 2

\* ------------------------------------------------------------ C24
\* C24: two schedulers share no mutable state.  A step of a method or of a
\* goroutine of one scheduler (a tick, an attempt that fails, a permanent
\* failure, AbortCurrentExecution, DisableNextExecution, Stop, and every
\* other step) leaves every other scheduler of the list as it was: its running
\* flag, its skip flag, its current cycle id and cancel func, its cycles, and
\* the rest of it.
C24_SchedulersShareNothing ==
    [][\A b \in Schedulers : (b # cur) => (State(b)' = State(b))]_vars

\* the scheduler in view has failed permanently and has its skip flag set
\* while the other one is running, with its skip flag clear and a cycle whose
\* attempt is in flight
C24_Witness ==
    /\ cur = 1
    /\ isDisabled
    /\ cycles # <<>> /\ cycles[1].pc = "done" /\ cycles[1].permanentFailures = 1
    /\ Running(2)
    /\ ~State(2)[10]
    /\ State(2)[15] # <<>> /\ State(2)[15][1].pc = "task"

\* ------------------------------------------------------------ C27
\* This step is a call of the partition function fn
Calls(fn) == sqlCall'.seq = sqlCall.seq + 1 /\ sqlCall'.fn = fn

\* C27: create_metric_partition(n) run a second time in succession, in the
\* same month, leaves the set of partitions as the first run left it, raises
\* no error and creates no second partition of a name.
C27_CreateTwiceIdempotent ==
    [][(/\ Calls("create_metric_partition")
        /\ sqlCall.fn = "create_metric_partition"
        /\ sqlCall.arg = sqlCall'.arg
        /\ sqlCall.date = today)
       => (/\ partitions' = partitions
           /\ sqlCall'.error = ""
           /\ \A p, q \in partitions' : (p.name = q.name) => (p = q))]_vars

\* ------------------------------------------------------------ C28
\* C28: create_metric_partition(n) ends with exactly one partition for each
\* month from the current one through n months ahead, which covers the range
\* from the first day of its month to the first day of the next, and leaves
\* every partition that existed before as it was.
C28_CreateCoversMonthsAhead ==
    [][Calls("create_metric_partition")
       => (/\ \A d \in today..(today + sqlCall'.arg) :
                 /\ MonthPartition(d) \in partitions'
                 /\ Cardinality({p \in partitions' : p.name = PartitionName(d)}) = 1
           /\ partitions \subseteq partitions')]_vars

\* ------------------------------------------------------------ C29
\* C29: drop_old_metric_partitions(r) drops exactly the partitions whose month
\* is earlier than the first day of the month r months before the current one,
\* the oldest first, and keeps every partition at or after that cutoff.
C29_DropExactlyOlderThanCutoff ==
    [][Calls("drop_old_metric_partitions")
       => LET old == { p \in partitions : p.from < today - sqlCall'.arg }
              dropped == sqlCall'.dropped
          IN  /\ partitions' = partitions \ old
              /\ { dropped[k] : k \in DOMAIN dropped } = old
              /\ \A j, k \in DOMAIN dropped : (j < k) => (dropped[j].from < dropped[k].from)]_vars

\* ------------------------------------------------------------ C30
\* C30: for each of interval, max retries, retry delay and query timeout, the
\* value in the resolved task is the server's override whenever the override
\* is set, an explicit 0 included; otherwise the base metric's value when that
\* is set; otherwise the global default.
C30_OverrideBaseGlobal ==
    metricTask.assembled =>
        metricTask.value =
            IF settings.override.set THEN settings.override.value
            ELSE IF settings.base.set THEN settings.base.value
            ELSE GlobalDefault(settings.field, settings.global)

\* ------------------------------------------------------------ C31
\* C31: once Stop() has returned, and until the next Start(), no new cycle is
\* dispatched and no new cancel func is recorded as current, however Stop()
\* interleaves with a tick the dispatch loop has already received: a step
\* taken while the scheduler is not running creates no cycle, starts none,
\* and leaves the tracked cancel func as it is or clears it.
C31_NoDispatchWhileStopped ==
    [][(~isRunning) =>
         (/\ Len(cycles') = Len(cycles)
          /\ \A c \in Cycles : (cycles[c].pc = "new") => (cycles'[c].pc = "new")
          /\ currentTaskCancel' \in {currentTaskCancel, 0})]_vars

\* ------------------------------------------------------------ C32
\* C32: a Start() that returns an error leaves the running flag false when it
\* was false before the call: the flag goes from false to true only in a
\* Start() that returns nil; in particular a scheduler rejected for an
\* interval <= 0 is not running afterwards, and a repeated Start() on it is
\* not rejected as already running.
C32_FailedStartNotRunning ==
    /\ [][(~isRunning /\ isRunning') => (startResult' = "ok")]_vars
    /\ []((startResult = "invalid_interval") => ~isRunning)
    /\ []((Interval <= 0) => (startResult # "already_running"))

\* ------------------------------------------------------------ C33
\* Cycle c ends in this step
Ends(c) == cycles[c].pc # "done" /\ cycles'[c].pc = "done"

\* C33: a cycle that ends clears the tracked cancel func and the current
\* cycle id only if the stored id is its own; if a newer cycle has been
\* recorded as current, that cycle's cancel func and id stay as they are.
C33_EndClearsOnlyOwnTracking ==
    [][\A c \in Cycles :
         Ends(c) =>
            IF currentTaskID = c
            THEN currentTaskCancel' = 0 /\ currentTaskID' = 0
            ELSE currentTaskCancel' = currentTaskCancel /\ currentTaskID' = currentTaskID]_vars

\* cycle 1 has ended with a success after cycle 2 was recorded as current,
\* and cycle 2, still inside the task function, is still the one tracked
C33_Witness ==
    /\ Len(cycles) = 2
    /\ cycles[1].pc = "done" /\ cycles[1].succeeded
    /\ cycles[2].pc = "task"
    /\ currentTaskID = 2 /\ currentTaskCancel = 2

\* ------------------------------------------------------------ C34
\* C34: whatever the queries and the inserts of its attempts answer and
\* however often it retries, a cycle stores at most one row: one call of the
\* task function calls the insert at most once and stores no more rows than
\* it made inserts, and a cycle that has stored a row has ended as a success.
C34_OneRowPerCycle ==
    /\ \A r \in TaskOutcomes : r[3] <= 1 /\ Len(r[1]) <= r[3]
    /\ \A c \in Cycles :
         /\ Len(cycles[c].stored) <= 1
         /\ (cycles[c].stored # <<>>) =>
               (cycles[c].pc = "done" /\ cycles[c].succeeded)

\* a cycle of the uptime probe whose first attempt failed (the insert of the
\* zero value was refused) and whose retry stored its one row
C34_Witness ==
    /\ IsUptime
    /\ \E c \in Cycles :
         /\ cycles[c].calls = 2
         /\ cycles[c].pc = "done" /\ cycles[c].succeeded
         /\ Len(cycles[c].stored) = 1

\* ------------------------------------------------------------ C35
\* Cycle c is inside the task function
InFlight(c) == cycles[c].pc = "task"

\* C35: cancelling a cycle while one of its attempts is in flight does not
\* interrupt the attempt: the step that cancels it leaves it inside the task
\* function with what it has stored and called, and the attempt of a cancelled
\* cycle returns what the two databases make it return; if that is a success,
\* its rows are stored and the cycle ends as a success.
C35_CancelDoesNotInterruptAttempt ==
    [][\A c \in Cycles :
         InFlight(c) =>
            /\ (~cycles[c].aborted /\ cycles'[c].aborted) =>
                  (/\ InFlight(c)'
                   /\ cycles'[c].stored = cycles[c].stored
                   /\ cycles'[c].calls = cycles[c].calls)
            /\ (cycles[c].aborted /\ ~InFlight(c)' /\ Attempt[2] = "") =>
                  (/\ cycles'[c].pc = "done"
                   /\ cycles'[c].succeeded
                   /\ cycles'[c].stored = cycles[c].stored \o Attempt[1])]_vars

\* a cycle that was cancelled inside its first attempt has ended as a success
\* with the row of that attempt
C35_Witness ==
    \E c \in Cycles :
       /\ cycles[c].aborted /\ cycles[c].calls = 1
       /\ cycles[c].pc = "done" /\ cycles[c].succeeded
       /\ cycles[c].stored = Attempt[1] /\ Len(Attempt[1]) = 1

\* ------------------------------------------------------------ C36
\* C36: for every MaxRetries the configuration can deliver, a cycle that has
\* ended without having been cancelled has invoked the task function at
\* least once, and a cycle that has logged a permanent failure has made at
\* least one attempt (each of them failed, or the cycle would have ended
\* before the log line).
C36_AtLeastOneAttempt ==
    \A c \in Cycles :
       /\ (cycles[c].pc = "done" /\ ~cycles[c].aborted) => (cycles[c].calls >= 1)
       /\ (cycles[c].permanentFailures >= 1) =>
             (cycles[c].calls >= 1 /\ ~cycles[c].succeeded)

\* ------------------------------------------------------------ C37
\* Everything of the scheduler but the skip flag
butIsDisabled ==
    <<config, taskIDCounter, currentTaskID, ticker, stopChan, isRunning,
      currentTaskCancel, closed, tickers, loops, cycles, startResult, panicked,
      lastRecorded>>

C38_SkipSurvivesStopStart ==
    /\ [][(isRunning' # isRunning) => (isDisabled' = isDisabled)]_vars
    /\ [][(~isRunning /\ isDisabled /\ ~isDisabled') =>
            (UNCHANGED butIsDisabled)]_vars
    /\ [][\A l \in Loops :
            (TickConsumed(l) /\ isDisabled) =>
               (loops'[l].pc = "select" /\ Len(cycles') = Len(cycles))]_vars

\* ------------------------------------------------------------ C39
\* C39: AbortCurrentExecution() changes neither the running flag nor the
\* skip flag nor the ticker, and with no cycle tracked it changes nothing; a
\* step that cancels the context of a cycle and is not Stop() (the running
\* flag stays) changes nothing but that context; and a tick the loop takes
\* after an abort, with the skip flag clear, dispatches a new cycle as any
\* other tick does.
C39_AbortLeavesScheduling ==
    /\ [][(AbortCurrentExecution) =>
            (/\ UNCHANGED <<isRunning, isDisabled, ticker, tickers>>
             /\ (currentTaskCancel = 0 => UNCHANGED vars))]_vars
    /\ [][(\E c \in Cycles : ~cycles[c].aborted /\ cycles'[c].aborted) =>
            (\/ isRunning /\ ~isRunning'
             \/ UNCHANGED <<config, taskIDCounter, currentTaskID, ticker, stopChan,
                            isRunning, isDisabled, currentTaskCancel, closed,
                            tickers, loops, startResult, panicked, lastRecorded>>)]_vars
    /\ [][\A l \in Loops :
            (/\ TickConsumed(l) /\ ~isDisabled
             /\ \E c \in Cycles : cycles[c].aborted) =>
               (/\ loops'[l].pc = "store"
                /\ cycles' = Append(cycles, NewCycle)
                /\ taskIDCounter' = taskIDCounter + 1)]_vars

\* cycle 1 was aborted by AbortCurrentExecution() (the scheduler has never
\* been stopped) and the next tick has dispatched cycle 2, which is tracked
\* as current and not cancelled
C39_Witness ==
    /\ isRunning /\ stopChan = 1
    /\ Len(cycles) = 2
    /\ cycles[1].aborted
    /\ cycles[2].pc = "check" /\ ~cycles[2].ctxErr
    /\ currentTaskID = 2 /\ currentTaskCancel = 2

====
